---- MODULE Spec2Model ----
(***************************************************************************)
(* Model of test_scripts/ck3_mod_manager.py (class CK3ModManager).         *)
(*                                                                         *)
(* A document is a sequence of lexical tokens.  Every token stands for a   *)
(* run of characters of one regular-expression class: the keywords         *)
(* ("namespace", "id", "trigger_event", ...) and the letters and digits    *)
(* are \w characters, " " is a \s character, "=", ".", "{" and "}" are     *)
(* themselves.  A file on disk is a sequence of such tokens that may start *)
(* with the byte-order mark "BOM" and may hold the byte "0xff", which is   *)
(* not valid UTF-8.  A message is the tuple of the parts of its f-string.  *)
(***************************************************************************)
EXTENDS Integers, Sequences, FiniteSets, TLC

VARIABLES
    modExists,   \* whether self.mod_path / mod_name exists
    folders,     \* the folders that exist under the mod directory
    files,       \* the files under the mod directory: path -> bytes
    content,     \* the `content` argument of a direct call
    file_path,   \* the `file_path` argument of a direct call
    prior,       \* the findings the lists held when the last call began
    errors,      \* the `errors` list when the last call ended
    warnings,    \* the `warnings` list when the last call ended
    exc,         \* the exception raised inside the last call (NoExc: none)
    op,          \* the operation that ran last ("none": none since the last edit)
    ret          \* what that operation returned

vars == <<modExists, folders, files, content, file_path, prior, errors,
          warnings, exc, op, ret>>

----------------------------------------------------------------------------
(* Bounds of the model *)

\* the longest document of SpecDoc, in fragments
MaxParts == 3

\* the most files the package holds at once
MaxFiles == 3

----------------------------------------------------------------------------
(* Character classes of the regular expressions *)

Keywords == {"namespace", "id", "trigger_event", "trigger", "effect", "is_shown"}

Letters == {"x", "y"}

Digits == {"1", "2"}

\* \s
IsSpace(c) == c = " "

\* \d
IsDigit(c) == c \in Digits

\* \w
IsWord(c) == c \in Keywords \cup Letters \cup Digits

\* the first position >= i whose token is not \s (Len+1 when there is none)
RECURSIVE SkipSpace(_, _)
SkipSpace(doc, i) ==
    IF i <= Len(doc) /\ IsSpace(doc[i]) THEN SkipSpace(doc, i + 1) ELSE i

\* the first position >= i whose token is not \w
RECURSIVE SkipWord(_, _)
SkipWord(doc, i) ==
    IF i <= Len(doc) /\ IsWord(doc[i]) THEN SkipWord(doc, i + 1) ELSE i

\* the first position >= i whose token is not \d
RECURSIVE SkipDigits(_, _)
SkipDigits(doc, i) ==
    IF i <= Len(doc) /\ IsDigit(doc[i]) THEN SkipDigits(doc, i + 1) ELSE i

\* kw\s*=\s* matched at position i: the position after it, 0 when it fails
MatchAssign(doc, kw, i) ==
    IF i > Len(doc) \/ doc[i] # kw THEN 0
    ELSE LET j == SkipSpace(doc, i + 1)
         IN  IF j > Len(doc) \/ doc[j] # "=" THEN 0
             ELSE SkipSpace(doc, j + 1)

\* (\w+\.\d+) matched at position k: <<first, last>> of the group, <<>> when it
\* fails.  \w+ and \d+ are greedy, and giving back part of either run cannot
\* help: the token after a shorter \w+ is a \w token, never "."
MatchDotted(doc, k) ==
    LET w == SkipWord(doc, k)
        d == SkipDigits(doc, w + 1)
    IN  IF k = 0 \/ w = k \/ w > Len(doc) \/ doc[w] # "." \/ d = w + 1
        THEN <<>>
        ELSE <<k, d - 1>>

\* (\w+) matched at position k
MatchWordGroup(doc, k) ==
    LET w == SkipWord(doc, k)
    IN  IF k = 0 \/ w = k THEN <<>> ELSE <<k, w - 1>>

\* one pattern of self.rules matched at position i: the span of group 1
MatchAt(pattern_name, doc, i) ==
    CASE pattern_name = "namespace" ->
            MatchWordGroup(doc, MatchAssign(doc, "namespace", i))
      [] pattern_name = "id" ->
            MatchDotted(doc, MatchAssign(doc, "id", i))
      [] pattern_name = "trigger_event" ->
            MatchDotted(doc, MatchAssign(doc, "trigger_event", i))
      [] OTHER -> <<>>

\* a faulty re_search: re.match, which looks at the start of the text only
re_match(pattern_name, doc) == MatchAt(pattern_name, doc, 1) # <<>>

\* re.search(pattern, content) is not None
re_search(pattern_name, doc) ==
    \E i \in 1..Len(doc) : MatchAt(pattern_name, doc, i) # <<>>

----------------------------------------------------------------------------
(* The rule table *)

rules ==
    [events |-> [required |-> <<"namespace", "id">>,
                 optional |-> <<"trigger", "effect">>,
                 patterns |-> <<"namespace", "id">>],
     decisions |-> [required |-> <<"is_shown", "effect">>,
                    optional |-> <<"ai_check">>,
                    patterns |-> <<"is_shown", "effect">>]]

Range(s) == {s[i] : i \in 1..Len(s)}

----------------------------------------------------------------------------
(* Content Checker for events and the Reference Resolver *)

MissingRequiredField(pattern_name, path) ==
    <<"Missing required field '", pattern_name, "' in ", path>>

MissingOptionalField(pattern_name, path) ==
    <<"Missing optional field '", pattern_name, "' in ", path>>

\* the body of the for loop of _validate_events, from the i-th pattern on
RECURSIVE validate_events_loop(_, _, _, _, _)
validate_events_loop(i, doc, path, errs, warns) ==
    LET patterns == rules.events.patterns
        pattern_name == patterns[i]
    IN  IF i > Len(patterns) THEN [errors |-> errs, warnings |-> warns]
        ELSE IF re_search(pattern_name, doc)
             THEN validate_events_loop(i + 1, doc, path, errs, warns)
        ELSE IF pattern_name \in Range(rules.events.required)
             THEN validate_events_loop(i + 1, doc, path,
                      Append(errs, MissingRequiredField(pattern_name, path)), warns)
        ELSE validate_events_loop(i + 1, doc, path, errs,
                      Append(warns, MissingOptionalField(pattern_name, path)))

_validate_events(doc, path, errs, warns) ==
    validate_events_loop(1, doc, path, errs, warns)

\* a faulty finditer: it stops at the first match
RECURSIVE finditer_first(_, _, _)
finditer_first(pattern_name, doc, i) ==
    IF i > Len(doc) THEN <<>>
    ELSE LET g == MatchAt(pattern_name, doc, i)
         IN  IF g = <<>> THEN finditer_first(pattern_name, doc, i + 1)
             ELSE <<g>>

\* re.finditer(pattern, content) from position i on: the spans of group 1 of
\* the non-overlapping matches, leftmost first
RECURSIVE finditer(_, _, _)
finditer(pattern_name, doc, i) ==
    IF i > Len(doc) THEN <<>>
    ELSE LET g == MatchAt(pattern_name, doc, i)
         IN  IF g = <<>> THEN finditer(pattern_name, doc, i + 1)
             ELSE <<g>> \o finditer(pattern_name, doc, g[2] + 1)

_extract_references(doc) ==
    LET event_refs == finditer("trigger_event", doc, 1)
    IN  [k \in 1..Len(event_refs) |->
            [type |-> "event",
             id |-> SubSeq(doc, event_refs[k][1], event_refs[k][2])]]

----------------------------------------------------------------------------
(* The package on disk *)

Folders == {"events", "common", "common/decisions", "localization",
            "gfx", "music", "interface"}

\* the folder a folder lies in ("" is the mod directory)
FolderParent(f) == IF f = "common/decisions" THEN "common" ELSE ""

Paths == {"events/a.txt", "events/b.txt", "events/notes.md",
          "common/decisions/d.txt", "localization/l.yml"}

PathFolder(p) ==
    CASE p \in {"events/a.txt", "events/b.txt", "events/notes.md"} -> "events"
      [] p = "common/decisions/d.txt" -> "common/decisions"
      [] p = "localization/l.yml" -> "localization"

PathSuffix(p) ==
    CASE p \in {"events/a.txt", "events/b.txt", "common/decisions/d.txt"} -> ".txt"
      [] p = "events/notes.md" -> ".md"
      [] p = "localization/l.yml" -> ".yml"

\* mod_path.glob('<folder>/**/*<suffix>'): the files it yields, in no order
glob(fi, folder, suffix) ==
    {p \in DOMAIN fi : PathFolder(p) = folder /\ PathSuffix(p) = suffix}

\* the orders in which a directory enumeration may yield a set of files
Orders(S) ==
    {o \in [1..Cardinality(S) -> S] : \A p \in S : \E i \in DOMAIN o : o[i] = p}

NoExc == <<>>

AttributeError(name) ==
    <<"'CK3ModManager' object has no attribute '", name, "'">>

\* str(e) of the decoding failure, without the byte position that follows
UnicodeDecodeError == <<"'utf-8' codec can't decode byte 0xff">>

\* the methods the class defines
Methods == {"create_mod", "validate_mod", "analyze_mod", "_create_descriptor",
            "_validate_structure", "_validate_content", "_validate_events",
            "_analyze_references", "_read_file", "_extract_references",
            "_collect_stats"}

\* self.<name>: the exception the attribute lookup raises
getattr_exc(name) == IF name \in Methods THEN NoExc ELSE AttributeError(name)

\* _read_file: decoding as utf-8-sig drops a leading byte-order mark and
\* fails on a byte that is not UTF-8
_read_file(bytes) ==
    IF "0xff" \in Range(bytes) THEN [exc |-> UnicodeDecodeError, text |-> <<>>]
    ELSE IF bytes # <<>> /\ bytes[1] = "BOM"
         THEN [exc |-> NoExc, text |-> Tail(bytes)]
    ELSE [exc |-> NoExc, text |-> bytes]

----------------------------------------------------------------------------
(* Structure Checker *)

required_folders == <<"events", "common", "localization">>

optional_folders == <<"gfx", "music", "interface">>

MissingRequiredFolder(folder) == <<"Missing required folder: ", folder>>

MissingOptionalFolder(folder) == <<"Missing optional folder: ", folder>>

\* the first for loop of _validate_structure, from the i-th folder on
RECURSIVE required_loop(_, _, _)
required_loop(i, fo, errs) ==
    IF i > Len(required_folders) THEN errs
    ELSE IF required_folders[i] \notin fo
         THEN required_loop(i + 1, fo,
                  Append(errs, MissingRequiredFolder(required_folders[i])))
    ELSE required_loop(i + 1, fo, errs)

\* the second for loop of _validate_structure
RECURSIVE optional_loop(_, _, _)
optional_loop(i, fo, warns) ==
    IF i > Len(optional_folders) THEN warns
    ELSE IF optional_folders[i] \notin fo
         THEN optional_loop(i + 1, fo,
                  Append(warns, MissingOptionalFolder(optional_folders[i])))
    ELSE optional_loop(i + 1, fo, warns)

\* a faulty _validate_structure: the second loop appends to errors too
_validate_structure_one_list(fo, errs, warns) ==
    [errors |-> optional_loop(1, fo, required_loop(1, fo, errs)),
     warnings |-> warns]

_validate_structure(fo, errs, warns) ==
    [errors |-> required_loop(1, fo, errs),
     warnings |-> optional_loop(1, fo, warns)]

----------------------------------------------------------------------------
(* Content validation of a package *)

\* the events loop of _validate_content over event_files, from the i-th on
RECURSIVE events_loop(_, _, _, _, _)
events_loop(i, fi, event_files, errs, warns) ==
    IF i > Len(event_files)
    THEN [exc |-> NoExc, errors |-> errs, warnings |-> warns]
    ELSE LET file == event_files[i]
             rd == _read_file(fi[file])
             v == _validate_events(rd.text, file, errs, warns)
         IN  IF rd.exc # NoExc
             THEN [exc |-> rd.exc, errors |-> errs, warnings |-> warns]
             ELSE events_loop(i + 1, fi, event_files, v.errors, v.warnings)

\* the decisions loop of _validate_content: it reads the first file and then
\* looks up self._validate_decisions
decisions_loop(fi, decision_files, errs, warns) ==
    IF decision_files = <<>>
    THEN [exc |-> NoExc, errors |-> errs, warnings |-> warns]
    ELSE LET rd == _read_file(fi[decision_files[1]])
         IN  [exc |-> IF rd.exc # NoExc THEN rd.exc
                      ELSE getattr_exc("_validate_decisions"),
              errors |-> errs, warnings |-> warns]

_validate_content(fi, event_files, decision_files, errs, warns) ==
    LET e == events_loop(1, fi, event_files, errs, warns)
    IN  IF e.exc # NoExc THEN e
        ELSE decisions_loop(fi, decision_files, e.errors, e.warnings)

ModValidation(is_valid, errs, warns) ==
    [is_valid |-> is_valid, errors |-> errs, warnings |-> warns]

\* a faulty handler: it reports the failed pass as valid
validate_mod_except_valid(e) == ModValidation(TRUE, <<e>>, <<>>)

\* the handler of validate_mod: except Exception as e
validate_mod_except(e) == ModValidation(FALSE, <<e>>, <<>>)

\* a faulty validate_mod: it does not look whether the mod directory exists
validate_mod_unguarded(me, fo, fi, event_files, decision_files) ==
    LET s == _validate_structure(fo, <<>>, <<>>)
        c == _validate_content(fi, event_files, decision_files,
                               s.errors, s.warnings)
        e == IF c.exc # NoExc THEN c.exc
             ELSE getattr_exc("_validate_references")
    IN  [ret |-> validate_mod_except(e),
         errors |-> c.errors, warnings |-> c.warnings, exc |-> e]

\* validate_mod with the orders in which the two globs yield their files:
\* what it returns, its two lists when it ended, the exception it caught
validate_mod(me, fo, fi, event_files, decision_files) ==
    IF ~me
    THEN [ret |-> ModValidation(FALSE, <<<<"Mod not found">>>>, <<>>),
          errors |-> <<>>, warnings |-> <<>>, exc |-> NoExc]
    ELSE LET s == _validate_structure(fo, <<>>, <<>>)
             c == _validate_content(fi, event_files, decision_files,
                                    s.errors, s.warnings)
             e == IF c.exc # NoExc THEN c.exc
                  ELSE getattr_exc("_validate_references")
         IN  IF e = NoExc
             THEN [ret |-> ModValidation(Len(c.errors) = 0, c.errors, c.warnings),
                   errors |-> c.errors, warnings |-> c.warnings, exc |-> NoExc]
             ELSE [ret |-> validate_mod_except(e),
                   errors |-> c.errors, warnings |-> c.warnings, exc |-> e]

----------------------------------------------------------------------------
(* Analysis Aggregator *)

\* the loop of _analyze_references over event_files, from the i-th on;
\* references is the defaultdict, a function on the keys it holds
RECURSIVE references_loop(_, _, _, _)
references_loop(i, fi, event_files, references) ==
    IF i > Len(event_files) THEN [exc |-> NoExc, value |-> references]
    ELSE LET rd == _read_file(fi[event_files[i]])
             refs == _extract_references(rd.text)
             old == IF "events" \in DOMAIN references
                    THEN references["events"] ELSE <<>>
         IN  IF rd.exc # NoExc THEN [exc |-> rd.exc, value |-> references]
             ELSE references_loop(i + 1, fi, event_files,
                      [k \in {"events"} |-> old \o refs])

_analyze_references(fi, event_files) ==
    references_loop(1, fi, event_files, [k \in {} |-> <<>>])

_collect_stats(fi) ==
    [events |-> Cardinality(glob(fi, "events", ".txt")),
     decisions |-> Cardinality(glob(fi, "common/decisions", ".txt")),
     localizations |-> Cardinality(glob(fi, "localization", ".yml"))]

\* analyze_mod: the dict display evaluates self._analyze_events first
analyze_mod(fi, event_files) ==
    LET e1 == getattr_exc("_analyze_events")
        e2 == getattr_exc("_analyze_decisions")
        r == _analyze_references(fi, event_files)
        e == IF e1 # NoExc THEN e1 ELSE IF e2 # NoExc THEN e2 ELSE r.exc
    IN  IF e # NoExc THEN [exc |-> e, ret |-> [error |-> e]]
        ELSE [exc |-> NoExc,
              ret |-> [references |-> r.value, stats |-> _collect_stats(fi)]]

----------------------------------------------------------------------------
(* Documents and file contents the model draws its inputs from *)

\* namespace=test_events id=test_events.1
DocEvent == <<"namespace", "=", "x", " ", "id", "=", "x", ".", "1">>

\* namespace=ck3_test
DocNsOnly == <<"namespace", "=", "x">>

\* trigger_event = x.1
DocRefX == <<"trigger_event", "=", "x", ".", "1">>

\* trigger_event = y.2
DocRefY == <<"trigger_event", " ", "=", " ", "y", ".", "2">>

\* is_shown={ always = yes }
DocDecision == <<"is_shown", "=", "{", "x", "=", "y", "}">>

Parts == {DocRefX, DocRefY, DocNsOnly, <<"id", "=", "x", ".", "1">>,
          <<" ">>, <<"=">>, <<".">>, <<"x">>, <<"1">>,
          <<"trigger_event">>, <<"id">>, <<"namespace">>}

\* the concatenations of at most n fragments
RECURSIVE DocsOf(_)
DocsOf(n) ==
    IF n = 0 THEN {<<>>}
    ELSE LET shorter == DocsOf(n - 1)
         IN  shorter \cup {d \o q : d \in shorter, q \in Parts}

Docs == DocsOf(MaxParts)

\* what a file of the package may hold
FileBytes(p) ==
    CASE PathFolder(p) = "events" /\ PathSuffix(p) = ".txt" ->
            {DocEvent, DocRefX, <<"BOM">> \o DocRefY, <<"0xff">>}
      [] PathFolder(p) = "common/decisions" -> {DocDecision, <<"0xff">>}
      [] OTHER -> {<<"x">>}

PriorFinding == <<"earlier finding">>

NoFindings == [errors |-> <<>>, warnings |-> <<>>]

\* the lists a direct call is handed
Priors == {NoFindings,
           [errors |-> <<PriorFinding>>, warnings |-> <<PriorFinding>>]}

NoRet == <<>>

----------------------------------------------------------------------------
(* The package is edited from outside the program *)

Forget ==
    /\ op' = "none"
    /\ ret' = NoRet
    /\ exc' = NoExc
    /\ prior' = NoFindings
    /\ errors' = <<>>
    /\ warnings' = <<>>
    /\ UNCHANGED <<content, file_path>>

MakeModDir ==
    /\ ~modExists
    /\ modExists' = TRUE
    /\ UNCHANGED <<folders, files>>
    /\ Forget

MakeFolder ==
    \E f \in Folders \ folders :
        /\ modExists
        /\ FolderParent(f) \in folders \cup {""}
        /\ folders' = folders \cup {f}
        /\ UNCHANGED <<modExists, files>>
        /\ Forget

WriteFile ==
    \E p \in Paths \ DOMAIN files :
        \E b \in FileBytes(p) :
            /\ PathFolder(p) \in folders
            /\ Cardinality(DOMAIN files) < MaxFiles
            /\ files' = [q \in DOMAIN files \cup {p} |->
                            IF q = p THEN b ELSE files[q]]
            /\ UNCHANGED <<modExists, folders>>
            /\ Forget

----------------------------------------------------------------------------
(* The operations of CK3ModManager on the package *)

ValidateMod ==
    \E event_files \in Orders(glob(files, "events", ".txt")) :
        \E decision_files \in Orders(glob(files, "common/decisions", ".txt")) :
            LET r == validate_mod(modExists, folders, files,
                                  event_files, decision_files)
            IN  /\ op' = "validate_mod"
                /\ ret' = r.ret
                /\ exc' = r.exc
                /\ prior' = NoFindings
                /\ errors' = r.errors
                /\ warnings' = r.warnings
                /\ UNCHANGED <<modExists, folders, files, content, file_path>>

AnalyzeMod ==
    \E event_files \in Orders(glob(files, "events", ".txt")) :
        LET r == analyze_mod(files, event_files)
        IN  /\ op' = "analyze_mod"
            /\ ret' = r.ret
            /\ exc' = r.exc
            /\ prior' = NoFindings
            /\ errors' = <<>>
            /\ warnings' = <<>>
            /\ UNCHANGED <<modExists, folders, files, content, file_path>>

ValidateStructureCall ==
    \E pr \in Priors :
        LET r == _validate_structure(folders, pr.errors, pr.warnings)
        IN  /\ op' = "_validate_structure"
            /\ ret' = NoRet
            /\ exc' = NoExc
            /\ prior' = pr
            /\ errors' = r.errors
            /\ warnings' = r.warnings
            /\ UNCHANGED <<modExists, folders, files, content, file_path>>

AnalyzeReferencesCall ==
    \E event_files \in Orders(glob(files, "events", ".txt")) :
        LET r == _analyze_references(files, event_files)
        IN  /\ op' = "_analyze_references"
            /\ ret' = IF r.exc = NoExc THEN r.value ELSE NoRet
            /\ exc' = r.exc
            /\ prior' = NoFindings
            /\ errors' = <<>>
            /\ warnings' = <<>>
            /\ UNCHANGED <<modExists, folders, files, content, file_path>>

CollectStatsCall ==
    /\ op' = "_collect_stats"
    /\ ret' = _collect_stats(files)
    /\ exc' = NoExc
    /\ prior' = NoFindings
    /\ errors' = <<>>
    /\ warnings' = <<>>
    /\ UNCHANGED <<modExists, folders, files, content, file_path>>

Init ==
    /\ modExists = FALSE
    /\ folders = {}
    /\ files = [p \in {} |-> <<>>]
    /\ content = <<>>
    /\ file_path = ""
    /\ prior = NoFindings
    /\ errors = <<>>
    /\ warnings = <<>>
    /\ exc = NoExc
    /\ op = "none"
    /\ ret = NoRet

Next ==
    \/ MakeModDir
    \/ MakeFolder
    \/ WriteFile
    \/ ValidateMod
    \/ AnalyzeMod
    \/ ValidateStructureCall
    \/ AnalyzeReferencesCall
    \/ CollectStatsCall

Spec == Init /\ [][Next]_vars

----------------------------------------------------------------------------
(* The Content Checker and the Reference Resolver called on one document *)

ValidateEventsCall ==
    LET r == _validate_events(content, file_path, prior.errors, prior.warnings)
    IN  /\ op' = "_validate_events"
        /\ ret' = NoRet
        /\ exc' = NoExc
        /\ errors' = r.errors
        /\ warnings' = r.warnings
        /\ UNCHANGED <<modExists, folders, files, content, file_path, prior>>

ExtractReferencesCall ==
    /\ op' = "_extract_references"
    /\ ret' = _extract_references(content)
    /\ exc' = NoExc
    /\ errors' = prior.errors
    /\ warnings' = prior.warnings
    /\ UNCHANGED <<modExists, folders, files, content, file_path, prior>>

InitDoc ==
    /\ modExists = FALSE
    /\ folders = {}
    /\ files = [p \in {} |-> <<>>]
    /\ content \in Docs
    /\ file_path = "events/a.txt"
    /\ prior \in Priors
    /\ errors = prior.errors
    /\ warnings = prior.warnings
    /\ exc = NoExc
    /\ op = "none"
    /\ ret = NoRet

NextDoc ==
    \/ ValidateEventsCall
    \/ ExtractReferencesCall

SpecDoc == InitDoc /\ [][NextDoc]_vars

----------------------------------------------------------------------------
(* Helpers of the properties *)

\* what the last call appended to a list that began as `before`
Appended(after, before) == SubSeq(after, Len(before) + 1, Len(after))

\* the list still begins with what it held
Extends(after, before) ==
    /\ Len(after) >= Len(before)
    /\ SubSeq(after, 1, Len(before)) = before

Count(seq, m) == Cardinality({i \in DOMAIN seq : seq[i] = m})

\* seq holds, in the order of msgs, exactly one msgs[i] for every index i of
\* `absent`, and nothing else
ExactlyTheAbsent(seq, msgs, absent) ==
    /\ \A i \in DOMAIN msgs : Count(seq, msgs[i]) = IF i \in absent THEN 1 ELSE 0
    /\ \A n \in DOMAIN seq : \E i \in DOMAIN msgs : seq[n] = msgs[i]
    /\ \A n, m \in DOMAIN seq :
           n < m => \A i, j \in DOMAIN msgs :
                        seq[n] = msgs[i] /\ seq[m] = msgs[j] => i < j

AllSpace(doc, a, b) == \A n \in a..b : IsSpace(doc[n])

AllWord(doc, a, b) == \A n \in a..b : IsWord(doc[n])

AllDigit(doc, a, b) == \A n \in a..b : IsDigit(doc[n])

Positions(doc, tok) == {i \in DOMAIN doc : doc[i] = tok}

\* kw \s* = \s* stands at i..k-1, with "=" at j
AssignOccurs(doc, kw, i, j, k) ==
    /\ doc[i] = kw
    /\ i < j /\ j < k
    /\ doc[j] = "="
    /\ AllSpace(doc, i + 1, j - 1)
    /\ AllSpace(doc, j + 1, k - 1)

\* some text of the document has the form namespace\s*=\s*\w+
NamespacePresent(doc) ==
    \E i \in Positions(doc, "namespace") : \E j \in Positions(doc, "=") :
        \E k \in DOMAIN doc : AssignOccurs(doc, "namespace", i, j, k) /\ IsWord(doc[k])

\* kw\s*=\s*\w+\.\d+ stands at i, with "=" at j and "." at w
DottedOccurs(doc, kw, i, j, w) ==
    /\ w + 1 \in DOMAIN doc
    /\ IsDigit(doc[w + 1])
    /\ \E k \in (j + 1)..(w - 1) :
           AssignOccurs(doc, kw, i, j, k) /\ AllWord(doc, k, w - 1)

\* some text of the document has the form id\s*=\s*\w+\.\d+
IdPresent(doc) ==
    \E i \in Positions(doc, "id") : \E j \in Positions(doc, "=") :
        \E w \in Positions(doc, ".") : DottedOccurs(doc, "id", i, j, w)

FieldAbsent(field) ==
    CASE field = "namespace" -> ~NamespacePresent(content)
      [] field = "id" -> ~IdPresent(content)
      [] OTHER -> TRUE

\* the occurrences of the trigger_event call in a document: <<i, j, w>>
Occurrences(doc) ==
    {o \in Positions(doc, "trigger_event") \X Positions(doc, "=")
             \X Positions(doc, ".") :
        DottedOccurs(doc, "trigger_event", o[1], o[2], o[3])}

\* the identifier of an occurrence: from the first token after "=" that is
\* no space to the last digit of the run after "."
IdentifierOf(doc, o) ==
    LET first == CHOOSE k \in (o[2] + 1)..(o[3] - 1) :
                     AllSpace(doc, o[2] + 1, k - 1) /\ ~IsSpace(doc[k])
        last == CHOOSE e \in (o[3] + 1)..Len(doc) :
                    /\ AllDigit(doc, o[3] + 1, e)
                    /\ (e = Len(doc) \/ ~IsDigit(doc[e + 1]))
    IN  SubSeq(doc, first, last)

\* the n-th occurrence in document order
NthOccurrence(doc, n) ==
    CHOOSE o \in Occurrences(doc) :
        Cardinality({q \in Occurrences(doc) : q[1] < o[1]}) = n - 1

----------------------------------------------------------------------------
(* Properties of validate_mod *)

\* C1: every ModValidation validate_mod returns has is_valid = true exactly
\* when its errors sequence is empty
C1_IsValidIffNoErrors ==
    op = "validate_mod" => (ret.is_valid <=> Len(ret.errors) = 0)

\* a pass that collected no error of its own and still reports one
C1_Witness ==
    /\ op = "validate_mod"
    /\ modExists
    /\ exc # NoExc
    /\ errors = <<>>
    /\ Len(ret.errors) = 1
    /\ ~ret.is_valid

\* C10: validate_mod always returns a ModValidation; for a missing mod
\* directory it is (false, ["Mod not found"], []) and no check has run; when a
\* step raises it is (false, [the exception's message], []), so none of the
\* findings collected before the failure is in it
C10_ExceptionBecomesTheOnlyError ==
    op = "validate_mod" =>
        /\ DOMAIN ret = {"is_valid", "errors", "warnings"}
        /\ ~modExists =>
               /\ ret = ModValidation(FALSE, <<<<"Mod not found">>>>, <<>>)
               /\ exc = NoExc /\ errors = <<>> /\ warnings = <<>>
        /\ exc # NoExc =>
               /\ ret = ModValidation(FALSE, <<exc>>, <<>>)
               /\ \A m \in Range(errors) \cup Range(warnings) :
                      m \notin Range(ret.errors) \cup Range(ret.warnings)

\* a read failure after errors and warnings were collected
C10_Witness ==
    /\ op = "validate_mod"
    /\ exc = UnicodeDecodeError
    /\ Len(errors) >= 3
    /\ Len(warnings) >= 1
    /\ ret.errors = <<UnicodeDecodeError>>
    /\ ret.warnings = <<>>

\* C4: when reading a file fails during a pass, the findings collected for
\* the folder structure and for the earlier files are still in the report
C4_ReadFailureIsIsolated ==
    (op = "validate_mod" /\ exc = UnicodeDecodeError) =>
        /\ \A m \in Range(errors) : m \in Range(ret.errors)
        /\ \A m \in Range(warnings) : m \in Range(ret.warnings)

EndToEndPackage ==
    /\ modExists
    /\ folders = {"events", "common", "common/decisions", "localization"}
    /\ DOMAIN files = {"events/a.txt", "common/decisions/d.txt"}
    /\ files["events/a.txt"] = DocEvent
    /\ files["common/decisions/d.txt"] = DocDecision

\* C5: on the end-to-end package the report is invalid, has an error for the
\* missing effect of the decision file, a warning for the missing trigger of
\* the event file and a warning for the missing folder gfx
C5_EndToEnd ==
    (op = "validate_mod" /\ EndToEndPackage) =>
        /\ ret.is_valid = FALSE
        /\ MissingRequiredField("effect", "common/decisions/d.txt")
               \in Range(ret.errors)
        /\ MissingOptionalField("trigger", "events/a.txt") \in Range(ret.warnings)
        /\ MissingOptionalFolder("gfx") \in Range(ret.warnings)

----------------------------------------------------------------------------
(* Properties of the Structure Checker *)

\* C3: _validate_structure appends one error for each absent required folder
\* and one warning for each absent optional folder, in declared order, and
\* nothing for a folder that exists
C3_StructureFindings ==
    op = "_validate_structure" =>
        /\ Extends(errors, prior.errors)
        /\ Extends(warnings, prior.warnings)
        /\ ExactlyTheAbsent(Appended(errors, prior.errors),
               [i \in DOMAIN required_folders |->
                   MissingRequiredFolder(required_folders[i])],
               {i \in DOMAIN required_folders : required_folders[i] \notin folders})
        /\ ExactlyTheAbsent(Appended(warnings, prior.warnings),
               [i \in DOMAIN optional_folders |->
                   MissingOptionalFolder(optional_folders[i])],
               {i \in DOMAIN optional_folders : optional_folders[i] \notin folders})
        /\ "events" \notin folders =>
               Cardinality({i \in DOMAIN errors : "events" \in Range(errors[i])}) = 1
        /\ "gfx" \notin folders =>
               Cardinality({i \in DOMAIN warnings : "gfx" \in Range(warnings[i])}) = 1

\* events and gfx are missing, common and music exist, the lists held findings
C3_Witness ==
    /\ op = "_validate_structure"
    /\ modExists
    /\ folders = {"common", "music"}
    /\ prior.errors = <<PriorFinding>>
    /\ errors = <<PriorFinding, MissingRequiredFolder("events"),
                  MissingRequiredFolder("localization")>>
    /\ warnings = <<PriorFinding, MissingOptionalFolder("gfx"),
                    MissingOptionalFolder("interface")>>

----------------------------------------------------------------------------
(* Properties of the Analysis Aggregator *)

\* the paths in lexicographic order
SortedPaths == <<"common/decisions/d.txt", "events/a.txt", "events/b.txt",
                 "events/notes.md", "localization/l.yml">>

\* the event files in lexicographic path order
SortedEventFiles ==
    SelectSeq(SortedPaths, LAMBDA p : p \in glob(files, "events", ".txt"))

RECURSIVE ReferencesOf(_, _)
ReferencesOf(paths, i) ==
    IF i > Len(paths) THEN <<>>
    ELSE _extract_references(_read_file(files[paths[i]]).text)
             \o ReferencesOf(paths, i + 1)

\* C8: the reference index of category events is the concatenation of the
\* files' references in lexicographic path order, whatever order the
\* directory enumeration yields the files in
C8_IndexInPathOrder ==
    (op = "_analyze_references" /\ exc = NoExc /\ "events" \in DOMAIN ret) =>
        ret["events"] = ReferencesOf(SortedEventFiles, 1)

\* C9: the report of analyze_mod has a stats mapping that counts the files
\* of every category
C9_StatsCounts ==
    op = "analyze_mod" =>
        /\ "stats" \in DOMAIN ret
        /\ ret.stats.events = Cardinality(glob(files, "events", ".txt"))
        /\ ret.stats.decisions =
               Cardinality(glob(files, "common/decisions", ".txt"))
        /\ ret.stats.localizations =
               Cardinality(glob(files, "localization", ".yml"))

----------------------------------------------------------------------------
(* Properties of the Content Checker for events *)

EventFields == rules.events.patterns

RequiredFields == Range(rules.events.required)

\* C2: _validate_events appends, in the declared order of the patterns, one
\* error for each field that is absent and required, one warning for each
\* that is absent and not required, and nothing for a field that is present;
\* a document with a namespace and no id gets the one error for id
C2_EventFindings ==
    op = "_validate_events" =>
        /\ Extends(errors, prior.errors)
        /\ Extends(warnings, prior.warnings)
        /\ ExactlyTheAbsent(Appended(errors, prior.errors),
               [i \in DOMAIN EventFields |->
                   MissingRequiredField(EventFields[i], file_path)],
               {i \in DOMAIN EventFields :
                   EventFields[i] \in RequiredFields /\ FieldAbsent(EventFields[i])})
        /\ ExactlyTheAbsent(Appended(warnings, prior.warnings),
               [i \in DOMAIN EventFields |->
                   MissingOptionalField(EventFields[i], file_path)],
               {i \in DOMAIN EventFields :
                   EventFields[i] \notin RequiredFields /\ FieldAbsent(EventFields[i])})
        /\ (NamespacePresent(content) /\ ~IdPresent(content)) =>
               /\ Appended(errors, prior.errors) =
                      <<MissingRequiredField("id", file_path)>>
               /\ Appended(warnings, prior.warnings) = <<>>

\* namespace=ck3_test and no id
C2_Witness ==
    /\ op = "_validate_events"
    /\ content = DocNsOnly
    /\ errors = prior.errors \o <<MissingRequiredField("id", "events/a.txt")>>
    /\ warnings = prior.warnings

NoneOfTheFourFields ==
    Range(content) \cap {"namespace", "id", "trigger", "effect"} = {}

\* C6: a document with none of namespace, id, trigger and effect gets exactly
\* 2 errors and 2 warnings
C6_TwoErrorsTwoWarnings ==
    (op = "_validate_events" /\ NoneOfTheFourFields) =>
        /\ Len(Appended(errors, prior.errors)) = 2
        /\ Len(Appended(warnings, prior.warnings)) = 2

----------------------------------------------------------------------------
(* Properties of the Reference Resolver *)

\* C7: _extract_references returns one Reference of kind event for every
\* occurrence of the trigger_event call, in document order, with the
\* identifier of the occurrence; duplicates stay and no occurrence gives an
\* empty sequence
C7_OneReferencePerOccurrence ==
    op = "_extract_references" =>
        /\ Len(ret) = Cardinality(Occurrences(content))
        /\ \A n \in 1..Len(ret) :
               ret[n] = [type |-> "event",
                         id |-> IdentifierOf(content, NthOccurrence(content, n))]
        /\ Occurrences(content) = {} => ret = <<>>

\* the same target referenced twice
C7_Witness ==
    /\ op = "_extract_references"
    /\ Len(ret) = 2
    /\ ret[1] = ret[2]
    /\ ret[1].id = <<"x", ".", "1">>

====
